---- MODULE Spec2Model ----
(***************************************************************************)
(* CompletionToken<T> (src/src/completion_token.rs): a clonable handle to  *)
(* an Arc<Mutex<Token<T>>>, where Token is New | Pending(Waker) |          *)
(* Complete(T).  set() and Future::poll() are modelled statement by        *)
(* statement; the MutexGuard taken at the first line of each lives until   *)
(* the function returns.                                                   *)
(*                                                                         *)
(* Threads are depositors (callers of set) and observers (tasks that await *)
(* a handle; the executor polls a task when its waker has been woken, and  *)
(* a wrapper such as a timeout may poll it without a wake).                *)
(*                                                                         *)
(* PartialEq::eq is modelled the same way (SpecEq, two tokens), and the    *)
(* demo of tests/stubs/state.rs on top of set and poll (SpecDemo).         *)
(*                                                                         *)
(* History variables (nsets, unread, reads, lost, setsDone, readys,        *)
(* famUnread, origin, late, wakes, woken, gafter) record what happened; no *)
(* action's guard or result                                                *)
(* reads them, except the counters that bound the run.  A deposited value  *)
(* carries the number of the set call that deposited it, so that a         *)
(* returned value names its deposit.                                       *)
(***************************************************************************)
EXTENDS Integers, FiniteSets, Sequences, TLC

\* ------------------------------------------------------------------ bounds
MaxSets == 2        \* set calls in a run
MaxAwaits == 2      \* awaits started in a run
MaxSpurious == 1    \* polls of a task whose waker was not woken
MaxEqs == 2         \* eq calls in a run

Observers == {"o1", "o2"}
Depositors == {"d1", "d2"}
Slot(d) == IF d = "d1" THEN 1 ELSE 2
Threads == Observers \cup Depositors
Comparers == {"e1", "e2"}
Values == {"Hello", "World"}
Handles == 1..4
Cells == 1..2
NoCell == 0
Free == "free"

\* ------------------------------------------------------------- Token<T>
TokenNew == [tag |-> "New"]
TokenPending(waker) == [tag |-> "Pending", waker |-> waker]
TokenComplete(value) == [tag |-> "Complete", value |-> value]

PollPending == [tag |-> "Pending"]
PollReady(value) == [tag |-> "Ready", value |-> value]
NoResult == [tag |-> "None"]

Deposits == [val : Values, id : 1..(MaxSets + 1)]
Tokens == {TokenNew} \cup {TokenPending(w) : w \in Observers}
              \cup {TokenComplete(d) : d \in Deposits}
NoDeposit == [val |-> "none", id |-> 0]

VARIABLES
    inner,      \* inner[c]: the Token<T> inside cell c's Mutex
    lock,       \* lock[c]: the thread holding cell c's MutexGuard, or Free
    arc,        \* arc[h]: the cell handle h points to (NoCell: h not created)
    pc,         \* pc[t]: the statement thread t is at
    arg,        \* arg[d]: the `value` argument of d's set call
    tok,        \* tok[t]: the local `token` of the call
    seen,       \* seen[t]: the scrutinee as matched by `match inner`
    res,        \* res[o]: what the observer's latest poll returned
    task,       \* task[o]: "idle" | "awaiting" | "dropped"
    sched,      \* sched[o]: the executor has o queued for a poll
    nsets, nawaits, nspur,              \* counters that bound the run
    origin,     \* origin[h]: the handle made by new() that h was cloned from
    unread,     \* unread[c]: the deposit swapped into c and not read since
    famUnread,  \* famUnread[r]: the same, per family of clones of r
    reads,      \* reads[id]: polls that returned the deposit of set call id
    lost,       \* ids of deposits overwritten before any poll read them
    setsDone,   \* setsDone[c]: set calls on c that have returned
    readys,     \* readys[c]: polls on c that have returned Ready
    late,       \* late[o]: o's await began after an observer of the same
                \* cell had been dropped
    wakes,      \* wakes[d]: the wakers d's set call has called wake() on
    woken,      \* woken[o]: wake() calls on o's waker since o last stored it
                \* in a cell (-1: it stored none since its last Ready)
    epc,        \* epc[e]: the statement comparer e is at
    lhs, rhs,   \* lhs[e], rhs[e]: the handles `self` and `other` of e's eq call
    eqres,      \* eqres[e]: what e's latest eq call returned ("none": nothing)
    neqs,       \* eq calls so far (bounds the run)
    poisoned,   \* poisoned[c]: a thread panicked while holding c's guard
    wpc,        \* the statement State::worker is at
    cpc,        \* the statement State::make_request is at
    chan,       \* the requests in the channel (tx, rx), oldest first
    slot,       \* State.inner: the stored Response, or NoResponse
    rq,         \* the `request` argument of make_request
    req,        \* the request the worker received
    resp,       \* what make_request returned
    got,        \* what get_response returned
    gafter      \* get_response was called after make_request had returned

vars == <<inner, lock, arc, pc, arg, tok, seen, res, task, sched,
          nsets, nawaits, nspur, origin, unread, famUnread, reads, lost,
          setsDone, readys, late, wakes, woken, epc, lhs, rhs, eqres, neqs,
          poisoned, wpc, cpc, chan, slot, rq, req, resp, got, gafter>>

histVars == <<origin, unread, famUnread, reads, lost, setsDone, readys>>

wakeVars == <<wakes, woken>>

eqVars == <<epc, lhs, rhs, eqres, neqs, poisoned>>

demoVars == <<wpc, cpc, chan, slot, rq, req, resp, got, gafter>>

\* Option<Response>::None, and a local not yet assigned
NoResponse == "none"
GetResponseError == "GetResponseError"

\* Every thread owns one handle: d1 the token made by new(), the others a
\* clone each (let thread_token = token.clone(); spawn(move || ...)).
HandleOf(t) ==
    CASE t = "d1" -> 1 [] t = "o1" -> 2 [] t = "o2" -> 3 [] t = "d2" -> 4

\* self.inner of a call by thread t, and the family of clones it belongs to
cellOf(t) == arc[HandleOf(t)]
famOf(t) == origin[HandleOf(t)]

Created(h) == arc[h] # NoCell
NextHandle == Cardinality({h \in Handles : Created(h)}) + 1

\* mem::swap(inner, &mut token)
swap(a, b) == [inner |-> b, token |-> a]

\* ------------------------------------------------------ new() and clone()
new == TokenNew

\* Variant: a clone that allocates a cell of its own.
clone_fresh(ptr) == ptr + 1

\* #[derive(Clone)]: Arc::clone hands out a pointer to the same allocation
clone(ptr) == ptr

\* ------------------------------------------------------------- the Mutex
\* Variant: a lock that excludes nobody.
acquirable_always(holder) == TRUE

\* Mutex::lock returns a guard once no other guard of the cell is out
acquirable(holder) == holder = Free

\* set's guard is dropped when set returns
set_unlock(holder) == Free

\* Variant: poll's guard outlives the call (held while the task is suspended).
poll_unlock_leaked(holder) == holder

\* poll's guard is dropped when poll returns
poll_unlock(holder) == Free

\* Everything but the handles: cells New and unlocked, no call in progress.
InitRest ==
    /\ inner = [c \in Cells |-> new]
    /\ lock = [c \in Cells |-> Free]
    /\ pc = [t \in Threads |-> "idle"]
    /\ arg = [d \in Depositors |-> NoDeposit]
    /\ tok = [t \in Threads |-> TokenNew]
    /\ seen = [t \in Threads |-> TokenNew]
    /\ res = [o \in Observers |-> NoResult]
    /\ task = [o \in Observers |-> "idle"]
    /\ sched = [o \in Observers |-> FALSE]
    /\ nsets = 0 /\ nawaits = 0 /\ nspur = 0
    /\ unread = [c \in Cells |-> NoDeposit]
    /\ famUnread = [h \in Handles |-> NoDeposit]
    /\ reads = [i \in 1..(MaxSets + 1) |-> 0]
    /\ lost = {}
    /\ setsDone = [c \in Cells |-> 0]
    /\ readys = [c \in Cells |-> 0]
    /\ late = [o \in Observers |-> FALSE]
    /\ wakes = [d \in Depositors |-> <<>>]
    /\ woken = [o \in Observers |-> -1]
    /\ epc = [e \in Comparers |-> "idle"]
    /\ lhs = [e \in Comparers |-> 1]
    /\ rhs = [e \in Comparers |-> 1]
    /\ eqres = [e \in Comparers |-> "none"]
    /\ neqs = 0
    /\ poisoned = [c \in Cells |-> FALSE]
    /\ wpc = "recv" /\ cpc = "send"
    /\ chan = <<>>
    /\ slot = NoResponse /\ req = NoResponse /\ resp = NoResponse
    /\ got = NoResponse /\ gafter = FALSE

\* let token = CompletionToken::new();
Init ==
    /\ arc = [h \in Handles |-> IF h = 1 THEN 1 ELSE NoCell]
    /\ origin = [h \in Handles |-> IF h = 1 THEN 1 ELSE 0]
    /\ rq = NoResponse
    /\ InitRest

CloneToken(h) ==
    /\ Created(h)
    /\ NextHandle \in Handles
    /\ arc' = [arc EXCEPT ![NextHandle] = clone(arc[h])]
    /\ origin' = [origin EXCEPT ![NextHandle] = origin[h]]
    /\ UNCHANGED <<inner, lock, pc, arg, tok, seen, res, task, sched, nsets,
                   nawaits, nspur, unread, famUnread, reads, lost, setsDone,
                   readys, late, wakeVars, eqVars, demoVars>>

\* ------------------------------------------------------------ Waker::wake
\* The executor queues the task for another poll; waking a task that is no
\* longer awaiting anything does nothing.
\* Variant: a wake that never reaches the executor.
wake_lost(w) == sched

wake(w) == [sched EXCEPT ![w] = (sched[w] \/ task[w] = "awaiting")]

\* ------------------------------------------------- CompletionToken::set
\* History: the deposit now in the cell, and the one it overwrote unread.
Deposited(c, r, dep) ==
    /\ unread' = [unread EXCEPT ![c] = dep]
    /\ famUnread' = [famUnread EXCEPT ![r] = dep]
    /\ lost' = IF unread[c] = NoDeposit THEN lost ELSE lost \cup {unread[c].id}

CallSet(d, v) ==
    /\ pc[d] = "idle"
    /\ \A e \in Depositors :
          (pc[e] = "idle" /\ cellOf(e) = cellOf(d)) => Slot(d) <= Slot(e)
    /\ Created(HandleOf(d))
    /\ nsets < MaxSets
    /\ nsets' = nsets + 1
    /\ arg' = [arg EXCEPT ![d] = [val |-> v, id |-> nsets + 1]]
    /\ pc' = [pc EXCEPT ![d] = "set_lock"]
    /\ UNCHANGED <<inner, lock, arc, tok, seen, res, task, sched, nawaits,
                   nspur, histVars, late, wakeVars, eqVars, demoVars>>

\* let inner = &mut *self.inner.lock().expect("set inner");
\* let mut token = Token::Complete(value);
SetLock(d) ==
    /\ pc[d] = "set_lock"
    /\ acquirable(lock[cellOf(d)])
    /\ ~poisoned[cellOf(d)]
    /\ lock' = [lock EXCEPT ![cellOf(d)] = d]
    /\ tok' = [tok EXCEPT ![d] = TokenComplete(arg[d])]
    /\ pc' = [pc EXCEPT ![d] = "set_match"]
    /\ UNCHANGED <<inner, arc, arg, seen, res, task, sched, nsets,
                   nawaits, nspur, histVars, late, wakeVars, eqVars,
                   demoVars>>

\* match inner {
SetMatch(d) ==
    /\ pc[d] = "set_match"
    /\ seen' = [seen EXCEPT ![d] = inner[cellOf(d)]]
    /\ pc' = [pc EXCEPT ![d] = "set_arm"]
    /\ UNCHANGED <<inner, lock, arc, arg, tok, res, task, sched, nsets,
                   nawaits, nspur, histVars, late, wakeVars, eqVars,
                   demoVars>>

\* Variants of set's arms: the value is not stored (New, Pending), or the
\* old value is kept (Complete).
set_arm_New_dropped(in, token) == [inner |-> in, token |-> token]

set_arm_New(in, token) == swap(in, token)

set_arm_Pending_unstored(in, token) == [inner |-> in, token |-> in]

set_arm_Pending(in, token) == swap(in, token)

set_arm_Complete_kept(in, token) == [inner |-> in, token |-> token]

set_arm_Complete(in, token) == swap(in, token)

SetArm(d, out, next) ==
    /\ inner' = [inner EXCEPT ![cellOf(d)] = out.inner]
    /\ tok' = [tok EXCEPT ![d] = out.token]
    /\ Deposited(cellOf(d), famOf(d), arg[d])
    /\ pc' = [pc EXCEPT ![d] = next]
    /\ UNCHANGED <<lock, arc, arg, seen, res, task, sched, nsets,
                   nawaits, nspur, origin, reads, setsDone, readys, late,
                   wakeVars, eqVars, demoVars>>

\* Token::New => { mem::swap(inner, &mut token); }
SetArmNew(d) ==
    /\ pc[d] = "set_arm"
    /\ seen[d].tag = "New"
    /\ SetArm(d, set_arm_New(inner[cellOf(d)], tok[d]), "set_ret")

\* Token::Pending(_waker) => { mem::swap(inner, &mut token); ...
SetArmPending(d) ==
    /\ pc[d] = "set_arm"
    /\ seen[d].tag = "Pending"
    /\ SetArm(d, set_arm_Pending(inner[cellOf(d)], tok[d]), "set_wake")

\* Token::Complete(_old_value) => { mem::swap(inner, &mut token); }
SetArmComplete(d) ==
    /\ pc[d] = "set_arm"
    /\ seen[d].tag = "Complete"
    /\ SetArm(d, set_arm_Complete(inner[cellOf(d)], tok[d]), "set_ret")

\* ... if let Token::Pending(waker) = token { waker.wake(); } }
SetWake(d) ==
    /\ pc[d] = "set_wake"
    /\ sched' = IF tok[d].tag = "Pending" THEN wake(tok[d].waker) ELSE sched
    /\ wakes' = IF tok[d].tag = "Pending"
                THEN [wakes EXCEPT ![d] = Append(@, tok[d].waker)] ELSE wakes
    /\ woken' = IF tok[d].tag = "Pending"
                THEN [woken EXCEPT ![tok[d].waker] = @ + 1] ELSE woken
    /\ pc' = [pc EXCEPT ![d] = "set_ret"]
    /\ UNCHANGED <<inner, lock, arc, arg, tok, seen, res, task, nsets,
                   nawaits, nspur, histVars, late, eqVars, demoVars>>

\* } : the guard and `token` go out of scope
SetRet(d) ==
    /\ pc[d] = "set_ret"
    /\ lock' = [lock EXCEPT ![cellOf(d)] = set_unlock(lock[cellOf(d)])]
    /\ tok' = [tok EXCEPT ![d] = TokenNew]
    /\ seen' = [seen EXCEPT ![d] = TokenNew]
    /\ arg' = [arg EXCEPT ![d] = NoDeposit]
    /\ wakes' = [wakes EXCEPT ![d] = <<>>]
    /\ setsDone' = [setsDone EXCEPT ![cellOf(d)] = @ + 1]
    /\ pc' = [pc EXCEPT ![d] = "idle"]
    /\ UNCHANGED <<inner, arc, res, task, sched, nsets, nawaits, nspur,
                   origin, unread, famUnread, reads, lost, readys, late,
                   woken, eqVars, demoVars>>

\* ------------------------------------------------------- Future::poll
\* An observer task starts to await handle h; the executor polls it at once.
StartAwait(o) ==
    /\ task[o] = "idle"
    /\ Created(HandleOf(o))
    /\ nawaits < MaxAwaits
    /\ nawaits' = nawaits + 1
    /\ task' = [task EXCEPT ![o] = "awaiting"]
    /\ res' = [res EXCEPT ![o] = NoResult]
    /\ sched' = [sched EXCEPT ![o] = TRUE]
    /\ late' = [late EXCEPT ![o] = \E q \in Observers :
                    task[q] = "dropped" /\ cellOf(q) = cellOf(o)]
    /\ UNCHANGED <<inner, lock, arc, pc, arg, tok, seen, nsets, nspur,
                   histVars, wakeVars, eqVars, demoVars>>

\* The executor polls a task that is queued (just spawned, or woken).
PollScheduled(o) ==
    /\ task[o] = "awaiting"
    /\ pc[o] = "idle"
    /\ sched[o]
    /\ sched' = [sched EXCEPT ![o] = FALSE]
    /\ pc' = [pc EXCEPT ![o] = "poll_lock"]
    /\ UNCHANGED <<inner, lock, arc, arg, tok, seen, res, task, nsets,
                   nawaits, nspur, histVars, late, wakeVars, eqVars,
                   demoVars>>

\* A poll nobody asked for by waking the token's waker (a timer of a
\* wrapping timeout fired, another branch of a select was woken).
PollSpurious(o) ==
    /\ task[o] = "awaiting"
    /\ pc[o] = "idle"
    /\ ~sched[o]
    /\ nspur < MaxSpurious
    /\ nspur' = nspur + 1
    /\ pc' = [pc EXCEPT ![o] = "poll_lock"]
    /\ UNCHANGED <<inner, lock, arc, arg, tok, seen, res, task, sched,
                   nsets, nawaits, histVars, late, wakeVars, eqVars,
                   demoVars>>

\* let inner = &mut *self.inner.lock().expect("poll inner");
PollLock(o) ==
    /\ pc[o] = "poll_lock"
    /\ acquirable(lock[cellOf(o)])
    /\ ~poisoned[cellOf(o)]
    /\ lock' = [lock EXCEPT ![cellOf(o)] = o]
    /\ pc' = [pc EXCEPT ![o] = "poll_match"]
    /\ UNCHANGED <<inner, arc, arg, tok, seen, res, task, sched, nsets,
                   nawaits, nspur, histVars, late, wakeVars, eqVars,
                   demoVars>>

\* match inner {
PollMatch(o) ==
    /\ pc[o] = "poll_match"
    /\ seen' = [seen EXCEPT ![o] = inner[cellOf(o)]]
    /\ pc' = [pc EXCEPT ![o] = "poll_arm"]
    /\ UNCHANGED <<inner, lock, arc, arg, tok, res, task, sched, nsets,
                   nawaits, nspur, histVars, late, wakeVars, eqVars,
                   demoVars>>

\* Token::New => { let mut token = Token::Pending(cx.waker().clone());
\*                 mem::swap(inner, &mut token); Poll::Pending }
poll_arm_New(in, waker) ==
    [inner |-> swap(in, TokenPending(waker)).inner,
     token |-> swap(in, TokenPending(waker)).token,
     result |-> PollPending]

\* Variant: the Pending arm registers the caller's waker.
poll_arm_Pending_replaced(in, waker) ==
    [inner |-> TokenPending(waker), token |-> in, result |-> PollPending]

\* Token::Pending(_waker) => Poll::Pending
poll_arm_Pending(in, waker) ==
    [inner |-> in, token |-> TokenNew, result |-> PollPending]

\* Variant: the Complete arm reads the value and leaves it in the cell.
poll_arm_Complete_copied(in) == [inner |-> in, token |-> in]

\* Token::Complete(_value) => { let mut token = Token::New;
\*                              mem::swap(inner, &mut token); ...
poll_arm_Complete(in) == swap(in, TokenNew)

\* ... if let Token::Complete(value) = token { Poll::Ready(value) }
\*     else { let mut token = Token::Pending(cx.waker().clone());
\*            mem::swap(inner, &mut token); Poll::Pending } }
poll_take(in, token, waker) ==
    IF token.tag = "Complete"
    THEN [inner |-> in, token |-> token, result |-> PollReady(token.value)]
    ELSE [inner |-> swap(in, TokenPending(waker)).inner,
          token |-> swap(in, TokenPending(waker)).token,
          result |-> PollPending]

PollArm(o, out, next) ==
    /\ inner' = [inner EXCEPT ![cellOf(o)] = out.inner]
    /\ tok' = [tok EXCEPT ![o] = out.token]
    /\ pc' = [pc EXCEPT ![o] = next]
    /\ UNCHANGED <<lock, arc, arg, seen, task, sched, nsets, nawaits,
                   nspur, eqVars, demoVars>>

PollArmNew(o) ==
    /\ pc[o] = "poll_arm"
    /\ seen[o].tag = "New"
    /\ PollArm(o, poll_arm_New(inner[cellOf(o)], o), "poll_ret")
    /\ res' = [res EXCEPT ![o] = poll_arm_New(inner[cellOf(o)], o).result]
    /\ woken' = [woken EXCEPT ![o] = 0]
    /\ UNCHANGED <<histVars, late, wakes>>

PollArmPending(o) ==
    /\ pc[o] = "poll_arm"
    /\ seen[o].tag = "Pending"
    /\ PollArm(o, poll_arm_Pending(inner[cellOf(o)], o), "poll_ret")
    /\ res' = [res EXCEPT ![o] = poll_arm_Pending(inner[cellOf(o)], o).result]
    /\ UNCHANGED <<histVars, late, wakeVars>>

PollArmComplete(o) ==
    /\ pc[o] = "poll_arm"
    /\ seen[o].tag = "Complete"
    /\ PollArm(o, poll_arm_Complete(inner[cellOf(o)]), "poll_take")
    /\ UNCHANGED <<res, histVars, late, wakeVars>>

\* History: a Ready result reads the deposit it carries.
Taken(c, r, result) ==
    IF result.tag = "Ready"
    THEN /\ reads' = [reads EXCEPT ![result.value.id] = @ + 1]
         /\ unread' = [unread EXCEPT ![c] = NoDeposit]
         /\ famUnread' = [famUnread EXCEPT ![r] = NoDeposit]
    ELSE UNCHANGED <<reads, unread, famUnread>>

PollTake(o) ==
    /\ pc[o] = "poll_take"
    /\ PollArm(o, poll_take(inner[cellOf(o)], tok[o], o), "poll_ret")
    /\ res' = [res EXCEPT ![o] = poll_take(inner[cellOf(o)], tok[o], o).result]
    /\ Taken(cellOf(o), famOf(o),
             poll_take(inner[cellOf(o)], tok[o], o).result)
    /\ woken' = IF poll_take(inner[cellOf(o)], tok[o], o).inner = TokenPending(o)
                THEN [woken EXCEPT ![o] = 0] ELSE woken
    /\ UNCHANGED <<origin, lost, setsDone, readys, late, wakes>>

\* } : the guard goes out of scope and the result goes to the executor; on
\* Ready the await is over.
PollRet(o) ==
    /\ pc[o] = "poll_ret"
    /\ lock' = [lock EXCEPT ![cellOf(o)] = poll_unlock(lock[cellOf(o)])]
    /\ tok' = [tok EXCEPT ![o] = TokenNew]
    /\ seen' = [seen EXCEPT ![o] = TokenNew]
    /\ pc' = [pc EXCEPT ![o] = "idle"]
    /\ task' = [task EXCEPT ![o] = IF res[o].tag = "Ready" THEN "idle" ELSE @]
    /\ sched' = [sched EXCEPT ![o] = IF res[o].tag = "Ready" THEN FALSE ELSE @]
    /\ readys' = [readys EXCEPT ![cellOf(o)] =
                      IF res[o].tag = "Ready" THEN @ + 1 ELSE @]
    /\ woken' = [woken EXCEPT ![o] = IF res[o].tag = "Ready" THEN -1 ELSE @]
    /\ UNCHANGED <<inner, arc, arg, res, nsets, nawaits, nspur, origin,
                   unread, famUnread, reads, lost, setsDone, late, wakes,
                   eqVars, demoVars>>

\* The awaiting future is dropped between polls (a timeout, a cancelled
\* task); it is never polled again.
Drop(o) ==
    /\ task[o] = "awaiting"
    /\ pc[o] = "idle"
    /\ res[o] = PollPending
    /\ task' = [task EXCEPT ![o] = "dropped"]
    /\ sched' = [sched EXCEPT ![o] = FALSE]
    /\ UNCHANGED <<inner, lock, arc, pc, arg, tok, seen, res, nsets,
                   nawaits, nspur, histVars, late, wakeVars, eqVars,
                   demoVars>>

\* The statements of one set call and of one poll, and a thread's next one.
SetStep(d) ==
    \/ SetLock(d) \/ SetMatch(d) \/ SetArmNew(d) \/ SetArmPending(d)
    \/ SetArmComplete(d) \/ SetWake(d) \/ SetRet(d)

PollStep(o) ==
    \/ PollLock(o) \/ PollMatch(o) \/ PollArmNew(o) \/ PollArmPending(o)
    \/ PollArmComplete(o) \/ PollTake(o) \/ PollRet(o)

\* ------------------------------------------------------------ the system
Next ==
    \/ \E h \in Handles : CloneToken(h)
    \/ \E d \in Depositors, v \in Values : CallSet(d, v)
    \/ \E d \in Depositors : SetLock(d)
    \/ \E d \in Depositors : SetMatch(d)
    \/ \E d \in Depositors : SetArmNew(d)
    \/ \E d \in Depositors : SetArmPending(d)
    \/ \E d \in Depositors : SetArmComplete(d)
    \/ \E d \in Depositors : SetWake(d)
    \/ \E d \in Depositors : SetRet(d)
    \/ \E o \in Observers : StartAwait(o)
    \/ \E o \in Observers : PollScheduled(o)
    \/ \E o \in Observers : PollSpurious(o)
    \/ \E o \in Observers : PollLock(o)
    \/ \E o \in Observers : PollMatch(o)
    \/ \E o \in Observers : PollArmNew(o)
    \/ \E o \in Observers : PollArmPending(o)
    \/ \E o \in Observers : PollArmComplete(o)
    \/ \E o \in Observers : PollTake(o)
    \/ \E o \in Observers : PollRet(o)
    \/ \E o \in Observers : Drop(o)

Spec == Init /\ [][Next]_vars

TypeOK ==
    /\ inner \in [Cells -> Tokens]
    /\ lock \in [Cells -> Threads \cup Comparers \cup {Free}]
    /\ arc \in [Handles -> Cells \cup {NoCell}]
    /\ tok \in [Threads -> Tokens]
    /\ seen \in [Threads -> Tokens]
    /\ task \in [Observers -> {"idle", "awaiting", "dropped"}]
    /\ sched \in [Observers -> BOOLEAN]

\* ---------------------------------------- one depositor and one observer
\* d1 calls set once and o1 awaits once.  With a single set the cell is
\* never Complete when set matches it, so set's Complete arm is left out.
OneSet == nsets = 0 /\ \E v \in Values : CallSet("d1", v)

OneAwait == nawaits = 0 /\ StartAwait("o1")

Next1 ==
    \/ \E h \in Handles : CloneToken(h)
    \/ OneSet
    \/ SetLock("d1")
    \/ SetMatch("d1")
    \/ SetArmNew("d1")
    \/ SetArmPending("d1")
    \/ SetWake("d1")
    \/ SetRet("d1")
    \/ OneAwait
    \/ PollScheduled("o1")
    \/ PollSpurious("o1")
    \/ PollLock("o1")
    \/ PollMatch("o1")
    \/ PollArmNew("o1")
    \/ PollArmPending("o1")
    \/ PollArmComplete("o1")
    \/ PollTake("o1")
    \/ PollRet("o1")

\* Threads run, a free mutex is acquired, and the executor polls a task
\* whose waker was woken (PollScheduled).  Nothing promises a poll without
\* a wake (PollSpurious).
Fair1 ==
    /\ WF_vars(\E h \in Handles : CloneToken(h))
    /\ WF_vars(OneSet)
    /\ WF_vars(SetLock("d1"))
    /\ WF_vars(SetMatch("d1"))
    /\ WF_vars(SetArmNew("d1"))
    /\ WF_vars(SetArmPending("d1"))
    /\ WF_vars(SetWake("d1"))
    /\ WF_vars(SetRet("d1"))
    /\ WF_vars(OneAwait)
    /\ WF_vars(PollScheduled("o1"))
    /\ WF_vars(PollLock("o1"))
    /\ WF_vars(PollMatch("o1"))
    /\ WF_vars(PollArmNew("o1"))
    /\ WF_vars(PollArmPending("o1"))
    /\ WF_vars(PollArmComplete("o1"))
    /\ WF_vars(PollTake("o1"))
    /\ WF_vars(PollRet("o1"))

Spec1 == Init /\ [][Next1]_vars /\ Fair1

\* ------------------------------------------------------- PartialEq::eq
\* Two tokens, each with a clone:
\*   let a = CompletionToken::new(); let a2 = a.clone();
\*   let b = CompletionToken::new(); let b2 = b.clone();
\* d1 deposits through a, o1 awaits a2, o2 awaits b, d2 deposits through b2.
InitEq ==
    /\ arc = [h \in Handles |-> IF h <= 2 THEN 1 ELSE 2]
    /\ origin = [h \in Handles |-> IF h <= 2 THEN 1 ELSE 3]
    /\ rq = NoResponse
    /\ InitRest

\* Variant: handles are equal exactly when they point to the same cell.
eq_identity(this, that, thisp, thatp) == thisp = thatp

\* match (this, that) { (New, New) => true,
\*                      (Pending(_), Pending(_)) => thisp == thatp,
\*                      (Complete(this), Complete(that)) => this == that,
\*                      _ => false }
eq(this, that, thisp, thatp) ==
    CASE this.tag = "New" /\ that.tag = "New" -> TRUE
      [] this.tag = "Pending" /\ that.tag = "Pending" -> thisp = thatp
      [] this.tag = "Complete" /\ that.tag = "Complete" ->
             this.value.val = that.value.val
      [] OTHER -> FALSE

\* Variant: comparing takes the token out of the cell.
eq_borrow_taken(in) == TokenNew

\* let this = &*self.inner.lock()...: a shared borrow; the cell keeps its token
eq_borrow(in) == in

\* The cells of an eq call's two operands
selfCell(e) == arc[lhs[e]]
otherCell(e) == arc[rhs[e]]

\* a == b, called on thread e (a thread that panicked is replaced by a new
\* one).  Of two idle comparers e1 goes first.
CallEq(e, a, b) ==
    /\ epc[e] \in {"idle", "panicked"}
    /\ e = "e2" => epc["e1"] # "idle"
    /\ Created(a) /\ Created(b)
    /\ neqs < MaxEqs
    /\ neqs' = neqs + 1
    /\ lhs' = [lhs EXCEPT ![e] = a]
    /\ rhs' = [rhs EXCEPT ![e] = b]
    /\ eqres' = [eqres EXCEPT ![e] = "none"]
    /\ epc' = [epc EXCEPT ![e] = "eq_lock_self"]
    /\ UNCHANGED <<inner, lock, arc, pc, arg, tok, seen, res, task, sched,
                   nsets, nawaits, nspur, histVars, late, wakeVars, poisoned,
                   demoVars>>

\* let this = &*self.inner.lock().expect("eq self inner");
EqLockSelf(e) ==
    /\ epc[e] = "eq_lock_self"
    /\ acquirable(lock[selfCell(e)])
    /\ ~poisoned[selfCell(e)]
    /\ lock' = [lock EXCEPT ![selfCell(e)] = e]
    /\ epc' = [epc EXCEPT ![e] = "eq_lock_other"]
    /\ UNCHANGED <<inner, arc, pc, arg, tok, seen, res, task, sched, nsets,
                   nawaits, nspur, histVars, late, wakeVars, lhs, rhs, eqres,
                   neqs, poisoned, demoVars>>

\* let that = &*other.inner.lock().expect("eq other inner");
\* The first guard is still out.  When other.inner is the Mutex this thread
\* has just locked, acquirable stays false: lock() does not return.
EqLockOther(e) ==
    /\ epc[e] = "eq_lock_other"
    /\ acquirable(lock[otherCell(e)])
    /\ ~poisoned[otherCell(e)]
    /\ lock' = [lock EXCEPT ![otherCell(e)] = e]
    /\ epc' = [epc EXCEPT ![e] = "eq_match"]
    /\ UNCHANGED <<inner, arc, pc, arg, tok, seen, res, task, sched, nsets,
                   nawaits, nspur, histVars, late, wakeVars, lhs, rhs, eqres,
                   neqs, poisoned, demoVars>>

\* Mutex::lock on a Mutex the calling thread already holds "might panic or
\* deadlock": the thread either stays at eq_lock_other for good (no step),
\* or panics here.  The unwinding drops the first guard, which poisons
\* the Mutex.
EqRelockPanic(e) ==
    /\ epc[e] = "eq_lock_other"
    /\ lock[otherCell(e)] = e
    /\ lock' = [lock EXCEPT ![selfCell(e)] = Free]
    /\ poisoned' = [poisoned EXCEPT ![selfCell(e)] = TRUE]
    /\ epc' = [epc EXCEPT ![e] = "panicked"]
    /\ UNCHANGED <<inner, arc, pc, arg, tok, seen, res, task, sched, nsets,
                   nawaits, nspur, histVars, late, wakeVars, lhs, rhs, eqres,
                   neqs, demoVars>>

\* match (this, that) { ... }
EqMatch(e) ==
    /\ epc[e] = "eq_match"
    /\ eqres' = [eqres EXCEPT ![e] =
                    eq(inner[selfCell(e)], inner[otherCell(e)],
                       selfCell(e), otherCell(e))]
    /\ inner' = [c \in Cells |->
                    IF c \in {selfCell(e), otherCell(e)}
                    THEN eq_borrow(inner[c]) ELSE inner[c]]
    /\ epc' = [epc EXCEPT ![e] = "eq_ret"]
    /\ UNCHANGED <<lock, arc, pc, arg, tok, seen, res, task, sched, nsets,
                   nawaits, nspur, histVars, late, wakeVars, lhs, rhs, neqs,
                   poisoned, demoVars>>

\* } : both guards go out of scope
EqRet(e) ==
    /\ epc[e] = "eq_ret"
    /\ lock' = [c \in Cells |->
                   IF c \in {selfCell(e), otherCell(e)} THEN Free ELSE lock[c]]
    /\ epc' = [epc EXCEPT ![e] = "idle"]
    /\ UNCHANGED <<inner, arc, pc, arg, tok, seen, res, task, sched, nsets,
                   nawaits, nspur, histVars, late, wakeVars, lhs, rhs, eqres,
                   neqs, poisoned, demoVars>>

\* lock() on a poisoned Mutex returns Err and .expect(..) panics.  In eq's
\* second lock the unwinding drops the first guard and poisons its Mutex.
SetPoisoned(d) ==
    /\ pc[d] = "set_lock"
    /\ acquirable(lock[cellOf(d)])
    /\ poisoned[cellOf(d)]
    /\ pc' = [pc EXCEPT ![d] = "panicked"]
    /\ UNCHANGED <<inner, lock, arc, arg, tok, seen, res, task, sched, nsets,
                   nawaits, nspur, histVars, late, wakeVars, eqVars,
                   demoVars>>

PollPoisoned(o) ==
    /\ pc[o] = "poll_lock"
    /\ acquirable(lock[cellOf(o)])
    /\ poisoned[cellOf(o)]
    /\ pc' = [pc EXCEPT ![o] = "panicked"]
    /\ UNCHANGED <<inner, lock, arc, arg, tok, seen, res, task, sched, nsets,
                   nawaits, nspur, histVars, late, wakeVars, eqVars,
                   demoVars>>

EqSelfPoisoned(e) ==
    /\ epc[e] = "eq_lock_self"
    /\ acquirable(lock[selfCell(e)])
    /\ poisoned[selfCell(e)]
    /\ epc' = [epc EXCEPT ![e] = "panicked"]
    /\ UNCHANGED <<inner, lock, arc, pc, arg, tok, seen, res, task, sched,
                   nsets, nawaits, nspur, histVars, late, wakeVars, lhs, rhs,
                   eqres, neqs, poisoned, demoVars>>

EqOtherPoisoned(e) ==
    /\ epc[e] = "eq_lock_other"
    /\ acquirable(lock[otherCell(e)])
    /\ poisoned[otherCell(e)]
    /\ lock' = [lock EXCEPT ![selfCell(e)] = Free]
    /\ poisoned' = [poisoned EXCEPT ![selfCell(e)] = TRUE]
    /\ epc' = [epc EXCEPT ![e] = "panicked"]
    /\ UNCHANGED <<inner, arc, pc, arg, tok, seen, res, task, sched, nsets,
                   nawaits, nspur, histVars, late, wakeVars, lhs, rhs, eqres,
                   neqs, demoVars>>

\* No set and no poll is in progress.
Quiet == \A t \in Threads : pc[t] \in {"idle", "panicked"}

\* The handles a comparer holds: a, a2 and b.
EqOperands == 1..3

\* Comparers, depositors and observers on the two tokens.  e1 compares any
\* two of its handles and e2 compares the same two the other way round.
\* Each cell gets one deposit and one await, and set and poll calls run one
\* at a time (their interleavings with each other are those of Spec).
NextEq ==
    \/ \E a \in EqOperands, b \in EqOperands : CallEq("e1", a, b)
    \/ CallEq("e2", rhs["e1"], lhs["e1"])
    \/ \E e \in Comparers : EqLockSelf(e)
    \/ \E e \in Comparers : EqLockOther(e)
    \/ \E e \in Comparers : EqRelockPanic(e)
    \/ \E e \in Comparers : EqMatch(e)
    \/ \E e \in Comparers : EqRet(e)
    \/ \E e \in Comparers : EqSelfPoisoned(e)
    \/ \E e \in Comparers : EqOtherPoisoned(e)
    \/ \E d \in Depositors, v \in Values :
          Quiet /\ unread[cellOf(d)] = NoDeposit /\ readys[cellOf(d)] = 0
                /\ CallSet(d, v)
    \/ \E d \in Depositors : SetLock(d)
    \/ \E d \in Depositors : SetMatch(d)
    \/ \E d \in Depositors : SetArmNew(d)
    \/ \E d \in Depositors : SetArmPending(d)
    \/ \E d \in Depositors : SetWake(d)
    \/ \E d \in Depositors : SetRet(d)
    \/ \E d \in Depositors : SetPoisoned(d)
    \/ \E o \in Observers : res[o] = NoResult /\ StartAwait(o)
    \/ \E o \in Observers : Quiet /\ PollScheduled(o)
    \/ \E o \in Observers : PollLock(o)
    \/ \E o \in Observers : PollMatch(o)
    \/ \E o \in Observers : PollArmNew(o)
    \/ \E o \in Observers : PollArmComplete(o)
    \/ \E o \in Observers : PollTake(o)
    \/ \E o \in Observers : PollRet(o)
    \/ \E o \in Observers : PollPoisoned(o)

SpecEq == InitEq /\ [][NextEq]_vars

\* ------------------------------------------- the demo (tests/stubs/state.rs)
\* test_state: State::worker and State::make_request(request) run as two
\* tasks on clones of one State.  arc[1] is make_request's `token`; the
\* worker deposits through the clone it receives and make_request awaits the
\* original (d1 and o1 hold the two handles the other way round, which the
\* cell they share cannot tell apart).
InitDemo ==
    /\ arc = [h \in Handles |-> IF h = 1 THEN 1 ELSE NoCell]
    /\ origin = [h \in Handles |-> IF h = 1 THEN 1 ELSE 0]
    /\ rq \in Values
    /\ InitRest

\* Variant: the worker deposits into the token before it stores the response.
worker_next_deposit_first(at) ==
    CASE at = "recv" -> "deposit" [] at = "deposit" -> "store"
      [] at = "store" -> "done"

\* worker: recv, then self.set(response.clone()), then token.set(..), Ok(())
worker_next(at) ==
    CASE at = "recv" -> "store" [] at = "store" -> "deposit"
      [] at = "deposit" -> "done"

\* make_request: token.clone()
DemoClone == cpc = "send" /\ ~Created(2) /\ CloneToken(1)

\* make_request: self.send(request, token.clone()).await
\* (the channel is unbounded: send does not wait)
DemoSend ==
    /\ cpc = "send"
    /\ Created(2)
    /\ chan' = Append(chan, rq)
    /\ cpc' = "await"
    /\ UNCHANGED <<inner, lock, arc, pc, arg, tok, seen, res, task, sched,
                   nsets, nawaits, nspur, histVars, late, wakeVars, eqVars,
                   wpc, slot, rq, req, resp, got, gafter>>

\* make_request: token.await (the polls are Future::poll's statements)
DemoAwait == cpc = "await" /\ OneAwait

\* make_request returns what the await produced
DemoReturn ==
    /\ cpc = "await"
    /\ task["o1"] = "idle"
    /\ res["o1"].tag = "Ready"
    /\ resp' = res["o1"].value.val
    /\ cpc' = "returned"
    /\ UNCHANGED <<inner, lock, arc, pc, arg, tok, seen, res, task, sched,
                   nsets, nawaits, nspur, histVars, late, wakeVars, eqVars,
                   wpc, chan, slot, rq, req, got, gafter>>

\* worker: if let Ok((request, token)) = self.rx.recv().await
WorkerRecv ==
    /\ wpc = "recv"
    /\ chan # <<>>
    /\ req' = Head(chan)
    /\ chan' = Tail(chan)
    /\ wpc' = worker_next("recv")
    /\ UNCHANGED <<inner, lock, arc, pc, arg, tok, seen, res, task, sched,
                   nsets, nawaits, nspur, histVars, late, wakeVars, eqVars,
                   cpc, slot, rq, resp, got, gafter>>

\* worker: response.value = request.value; self.set(response.clone()).await
WorkerStore ==
    /\ wpc = "store"
    /\ slot' = req
    /\ wpc' = worker_next("store")
    /\ UNCHANGED <<inner, lock, arc, pc, arg, tok, seen, res, task, sched,
                   nsets, nawaits, nspur, histVars, late, wakeVars, eqVars,
                   cpc, chan, rq, req, resp, got, gafter>>

\* worker: token.set(response.clone()) (the call; set's statements follow)
WorkerDeposit == wpc = "deposit" /\ nsets = 0 /\ CallSet("d1", req)

\* worker: token.set has returned
WorkerDeposited ==
    /\ wpc = "deposit"
    /\ nsets = 1
    /\ pc["d1"] = "idle"
    /\ wpc' = worker_next("deposit")
    /\ UNCHANGED <<inner, lock, arc, pc, arg, tok, seen, res, task, sched,
                   nsets, nawaits, nspur, histVars, late, wakeVars, eqVars,
                   cpc, chan, slot, rq, req, resp, got, gafter>>

\* get_response, called once at any moment: inner.take()
GetResponse ==
    /\ got = NoResponse
    /\ got' = IF slot = NoResponse THEN GetResponseError ELSE slot
    /\ slot' = NoResponse
    /\ gafter' = (cpc = "returned")
    /\ UNCHANGED <<inner, lock, arc, pc, arg, tok, seen, res, task, sched,
                   nsets, nawaits, nspur, histVars, late, wakeVars, eqVars,
                   wpc, cpc, chan, rq, req, resp>>

NextDemo ==
    \/ DemoClone \/ DemoSend \/ DemoAwait \/ DemoReturn
    \/ WorkerRecv \/ WorkerStore \/ WorkerDeposit \/ WorkerDeposited
    \/ GetResponse
    \/ SetLock("d1") \/ SetMatch("d1") \/ SetArmNew("d1")
    \/ SetArmPending("d1") \/ SetWake("d1") \/ SetRet("d1")
    \/ PollScheduled("o1") \/ PollLock("o1") \/ PollMatch("o1")
    \/ PollArmNew("o1") \/ PollArmComplete("o1") \/ PollTake("o1")
    \/ PollRet("o1")

\* Both tasks are spawned on an executor that runs every task that can run,
\* and polls a task whose waker was woken; nothing promises get_response.
FairDemo ==
    /\ WF_vars(DemoClone) /\ WF_vars(DemoSend) /\ WF_vars(DemoAwait)
    /\ WF_vars(DemoReturn)
    /\ WF_vars(WorkerRecv) /\ WF_vars(WorkerStore) /\ WF_vars(WorkerDeposit)
    /\ WF_vars(WorkerDeposited)
    /\ WF_vars(SetLock("d1")) /\ WF_vars(SetMatch("d1"))
    /\ WF_vars(SetArmNew("d1")) /\ WF_vars(SetArmPending("d1"))
    /\ WF_vars(SetWake("d1")) /\ WF_vars(SetRet("d1"))
    /\ WF_vars(PollScheduled("o1")) /\ WF_vars(PollLock("o1"))
    /\ WF_vars(PollMatch("o1")) /\ WF_vars(PollArmNew("o1"))
    /\ WF_vars(PollArmComplete("o1")) /\ WF_vars(PollTake("o1"))
    /\ WF_vars(PollRet("o1"))

SpecDemo == InitDemo /\ [][NextDemo]_vars /\ FairDemo

\* ================================================================ claims

\* C1: no lost wake-up.  With one depositor calling set(v) once and one
\* observer awaiting the cell, under every interleaving, and with the
\* executor polling the observer after its waker is woken, the observer
\* eventually obtains Ready(v).
C1_NoLostWakeup ==
    /\ <>(res["o1"].tag = "Ready")
    /\ \A v \in Values :
          (arg["d1"].val = v) ~> (res["o1"] = PollReady([val |-> v, id |-> 1]))

\* The observer registered its waker first; the set then stored the value
\* and woke it; the executor has it queued.
C1_Witness ==
    /\ inner[1].tag = "Complete"
    /\ task["o1"] = "awaiting" /\ pc["o1"] = "idle"
    /\ res["o1"] = PollPending
    /\ sched["o1"]

\* A poll by o returns in this step.
Returns(o) == pc[o] \in {"poll_arm", "poll_take"} /\ pc'[o] = "poll_ret"

HasReady(o) == pc[o] = "poll_ret" /\ res[o].tag = "Ready"

\* C2: exactly-once consumption under concurrency.  Each deposit is returned
\* as Ready by at most one poll, the poll that returns it still holds the
\* lock and has left the cell empty, and on every cell the polls that have
\* returned Ready are at most the set calls that have returned.
C2_ExactlyOnce ==
    /\ \A i \in DOMAIN reads : reads[i] <= 1
    /\ \A o \in Observers :
          HasReady(o) => lock[cellOf(o)] = o /\ inner[cellOf(o)] = TokenNew
    /\ \A c \in Cells : readys[c] <= setsDone[c]

\* One observer has just read a value while the other observer and a
\* depositor are waiting for the lock of the same cell.
C2_Witness ==
    \E o, p \in Observers, d \in Depositors :
        /\ HasReady(o)
        /\ pc[p] = "poll_lock" /\ cellOf(p) = cellOf(o)
        /\ pc[d] = "set_lock" /\ cellOf(d) = cellOf(o)

\* C3: single deposit, single read.  A poll returns Ready(x) when x was
\* set and has not been read since, and Pending when nothing was set since
\* the cell was created or last read.
C3_SingleRead ==
    [][\A o \in Observers :
          Returns(o) =>
              res'[o] = IF unread[cellOf(o)] # NoDeposit
                        THEN PollReady(unread[cellOf(o)])
                        ELSE PollPending]_vars

\* After one set and one read, a further poll with no new set has
\* returned Pending.
C3_Witness ==
    \E o \in Observers :
        /\ pc[o] = "poll_ret" /\ res[o] = PollPending
        /\ nsets = 1 /\ setsDone[cellOf(o)] = 1 /\ readys[cellOf(o)] = 1

\* C4: last write wins.  A Ready result carries the deposit most recently
\* swapped into the cell; a deposit overwritten before it was read is never
\* returned, and the deposits read are at most the sets less the
\* overwritten ones.
C4_LastWriteWins ==
    [][/\ \A o \in Observers :
             (Returns(o) /\ res'[o].tag = "Ready") =>
                 res'[o].value = unread[cellOf(o)]
       /\ \A i \in lost' : reads'[i] = 0
       /\ Cardinality({i \in DOMAIN reads' : reads'[i] > 0})
              <= nsets' - Cardinality(lost')]_vars

\* Two sets with no read in between, and then a poll has returned the
\* second one.
C4_Witness ==
    \E o \in Observers :
        /\ HasReady(o)
        /\ lost # {}
        /\ res[o].value.id \notin lost

\* C5: reusability.  The lock is never left held by a thread outside a
\* call, and whatever calls came before, a poll after a set(x) that has not
\* been read returns Ready(x).
C5_Reusable ==
    [][/\ \A c \in Cells :
             lock[c] # Free =>
                 pc[lock[c]] \notin {"idle", "set_lock", "poll_lock"}
       /\ \A o \in Observers :
             (Returns(o) /\ unread[cellOf(o)] # NoDeposit) =>
                 res'[o] = PollReady(unread[cellOf(o)])]_vars

\* set(a), a read through clone t1 (o1), set(b), b read through clone t2
\* (o2).
C5_Witness ==
    /\ res["o1"].tag = "Ready" /\ res["o1"].value.id = 1
    /\ HasReady("o2") /\ res["o2"].value.id = 2
    /\ cellOf("o1") = cellOf("o2")
    /\ HandleOf("o1") # HandleOf("o2")

\* C6: clones share one cell.  Handles cloned from the same token point to
\* the same cell, and a poll through any of them returns the value last set
\* through any of them and not read since (Pending if there is none).
C6_ClonesShare ==
    [][/\ \A g, h \in Handles :
             (Created(g)' /\ Created(h)' /\ origin'[g] = origin'[h]) =>
                 arc'[g] = arc'[h]
       /\ \A o \in Observers :
             Returns(o) =>
                 res'[o] = IF famUnread[famOf(o)] # NoDeposit
                           THEN PollReady(famUnread[famOf(o)])
                           ELSE PollPending]_vars

\* The only set so far went through the token made by new() (handle 1, by
\* d1); an observer has read it through its clone.
C6_Witness ==
    \E o \in Observers :
        /\ HasReady(o)
        /\ nsets = 1 /\ pc["d2"] = "idle"
        /\ HandleOf(o) # HandleOf("d1")
        /\ origin[HandleOf(o)] = origin[HandleOf("d1")]

\* C7: latest suspender is honoured.  A poll that found the cell empty
\* (New, or Pending with another observer's waker) leaves the caller's
\* waker registered.
C7_LatestSuspender ==
    \A o \in Observers :
        (pc[o] = "poll_ret" /\ res[o] = PollPending) =>
            inner[cellOf(o)] = TokenPending(o)

\* C8: cancellation leaves the cell usable.  An observer that began to
\* await after another observer of the cell was dropped is never left
\* parked, its waker neither registered nor woken, while a value sits in the
\* cell and no call is in progress: nothing would poll it again.
Stranded(o) ==
    /\ late[o]
    /\ task[o] = "awaiting" /\ pc[o] = "idle" /\ ~sched[o]
    /\ res[o] = PollPending
    /\ inner[cellOf(o)].tag = "Complete"
    /\ \A t \in Threads : pc[t] = "idle"

C8_CancellationUsable == \A o \in Observers : ~Stranded(o)

\* C9: never wrongly ready.  A poll returns Ready only if a set on the cell
\* has completed since the cell was created or last read: the sets that
\* have returned exceed the Ready results so far.
C9_NeverWronglyReady ==
    [][\A o \in Observers :
          (Returns(o) /\ res'[o].tag = "Ready") =>
              /\ unread[cellOf(o)] # NoDeposit
              /\ setsDone[cellOf(o)] > readys[cellOf(o)]]_vars

\* No set at all; the cell was polled through both clones and polled again
\* without a wake, and every poll returned Pending.
C9_Witness ==
    /\ nsets = 0
    /\ nspur >= 1
    /\ \A o \in Observers : res[o] = PollPending
    /\ \E o \in Observers : pc[o] = "poll_ret"

\* C10: idempotent empty poll.  A poll that matched the cell as empty with
\* a waiter registered returns Pending and leaves the cell, and the waker
\* in it, as it found them.
C10_IdempotentEmptyPoll ==
    \A o \in Observers :
        (pc[o] = "poll_ret" /\ seen[o].tag = "Pending") =>
            /\ res[o] = PollPending
            /\ inner[cellOf(o)] = seen[o]

\* An observer polls again the cell that already holds its own waker.
C10_Witness ==
    \E o \in Observers :
        /\ pc[o] = "poll_ret"
        /\ seen[o] = TokenPending(o)
        /\ nsets = 0

\* C15: deposit always completes.  A thread inside set (or inside poll) can
\* always take its next statement, unless it is waiting for the lock, and
\* then the lock's holder is inside a call of its own and can take its next
\* statement: set waits for no observer to read or to register, and set and
\* poll never block each other for good.
C15_DepositCompletes ==
    /\ \A d \in Depositors :
          pc[d] # "idle" =>
              \/ ENABLED SetStep(d)
              \/ /\ pc[d] = "set_lock"
                 /\ \E h \in Threads \ {d} :
                       /\ lock[cellOf(d)] = h
                       /\ pc[h] \notin {"idle", "set_lock", "poll_lock"}
                       /\ IF h \in Depositors THEN ENABLED SetStep(h)
                                              ELSE ENABLED PollStep(h)
    /\ \A o \in Observers :
          pc[o] # "idle" =>
              \/ ENABLED PollStep(o)
              \/ /\ pc[o] = "poll_lock"
                 /\ \E h \in Threads \ {o} :
                       /\ lock[cellOf(o)] = h
                       /\ pc[h] \notin {"idle", "set_lock", "poll_lock"}
                       /\ IF h \in Depositors THEN ENABLED SetStep(h)
                                              ELSE ENABLED PollStep(h)

\* A depositor waits for the lock while an observer holds it, with a second
\* observer suspended on the cell and a deposit already made.
C15_Witness ==
    \E d \in Depositors, o \in Observers :
        /\ pc[d] = "set_lock"
        /\ lock[cellOf(d)] = o
        /\ \E q \in Observers \ {o} : task[q] = "awaiting" /\ pc[q] = "idle"
        /\ nsets = 2

\* C18: lock scope.  A suspended observer holds no lock, and the lock of the
\* cell is free at the moment set calls wake on the waker it swapped out.
C18_LockScope ==
    /\ \A o \in Observers :
          (Created(HandleOf(o)) /\ pc[o] = "idle") => lock[cellOf(o)] # o
    /\ \A d \in Depositors : pc[d] = "set_wake" => lock[cellOf(d)] = Free

\* C19: the fallback branch of poll is unreachable.  What the Complete arm
\* swaps out is always Complete(value): a poll that matched a held value
\* returns Ready and leaves no waker behind.
C19_FallbackUnreachable ==
    \A o \in Observers :
        /\ pc[o] = "poll_take" => tok[o].tag = "Complete"
        /\ (pc[o] = "poll_ret" /\ seen[o].tag = "Complete") =>
              /\ res[o].tag = "Ready"
              /\ inner[cellOf(o)] = TokenNew

\* A poll has matched a held value and swapped it out, while the other
\* observer is about to poll the same cell and a second set is on its way.
C19_Witness ==
    \E o \in Observers, q \in Observers, d \in Depositors :
        /\ pc[o] = "poll_take"
        /\ pc[q] = "poll_lock"
        /\ cellOf(q) = cellOf(o)
        /\ pc[d] = "set_lock"

\* C17: wake discipline.  A set that found a waiter has removed it from the
\* cell and, by its return, has called wake on that waker once and on no
\* other; a set that found no waiter has woken nobody.  No waker is woken
\* twice for one registration, and while the cell holds a value the only
\* stored-and-unwoken waker is the one a set has swapped out and is about
\* to wake.
C17_WakeDiscipline ==
    /\ \A d \in Depositors :
          /\ Len(wakes[d]) <= 1
          /\ pc[d] = "set_ret" =>
                wakes[d] = IF seen[d].tag = "Pending"
                           THEN <<seen[d].waker>> ELSE <<>>
          /\ (pc[d] \in {"set_wake", "set_ret"} /\ seen[d].tag = "Pending") =>
                inner[cellOf(d)] = TokenComplete(arg[d])
    /\ \A o \in Observers :
          /\ woken[o] <= 1
          /\ (woken[o] = 0 /\ inner[cellOf(o)].tag = "Complete") =>
                \E d \in Depositors :
                    pc[d] = "set_wake" /\ tok[d] = TokenPending(o)

\* Both kinds of set have run to their last statement: one found a waiter
\* and woke it, the other found the value of the first and woke nobody.
C17_Witness ==
    \E d \in Depositors, e \in Depositors, o \in Observers :
        /\ pc[d] = "set_ret" /\ wakes[d] = <<o>> /\ woken[o] = 1
        /\ pc[e] = "set_lock" /\ nsets = 2
        /\ \E q \in Observers \ {o} : res[q] = PollPending

\* C11: equality of distinct empty cells.  An eq call on handles of two
\* different cells, at least one of them empty (with or without a waiter),
\* returns false.
C11_DistinctEmptyUnequal ==
    \A e \in Comparers :
        (/\ epc[e] = "eq_ret"
         /\ selfCell(e) # otherCell(e)
         /\ \/ inner[selfCell(e)].tag # "Complete"
            \/ inner[otherCell(e)].tag # "Complete") => eqres[e] = FALSE

\* C12: equality by identity.  An eq call on two handles of the same cell
\* gets past both lock() calls, does not panic, and returns true whatever
\* the cell holds.
C12_EqualByIdentity ==
    \A e \in Comparers :
        (epc[e] # "idle" /\ selfCell(e) = otherCell(e)) =>
            /\ epc[e] # "panicked"
            /\ ~(epc[e] = "eq_lock_other" /\ lock[otherCell(e)] = e)
            /\ epc[e] = "eq_ret" => eqres[e] = TRUE

\* C13: equality of values.  An eq call on handles of two different cells
\* that both hold a value returns true exactly when the values are equal;
\* when one holds a value and the other is empty it returns false.
C13_ValuesCompared ==
    \A e \in Comparers :
        (epc[e] = "eq_ret" /\ selfCell(e) # otherCell(e)) =>
            /\ (/\ inner[selfCell(e)].tag = "Complete"
                /\ inner[otherCell(e)].tag = "Complete") =>
                  (eqres[e] = TRUE <=>
                       inner[selfCell(e)].value.val
                           = inner[otherCell(e)].value.val)
            /\ ((inner[selfCell(e)].tag = "Complete")
                    # (inner[otherCell(e)].tag = "Complete")) =>
                  eqres[e] = FALSE

\* Both comparers have been through a value comparison: e1 has just compared
\* two cells holding equal values, deposited by different set calls.
C13_Witness ==
    /\ epc["e1"] = "eq_ret"
    /\ selfCell("e1") # otherCell("e1")
    /\ inner[selfCell("e1")].tag = "Complete"
    /\ inner[otherCell("e1")].tag = "Complete"
    /\ inner[selfCell("e1")].value.val = inner[otherCell("e1")].value.val
    /\ inner[selfCell("e1")].value.id # inner[otherCell("e1")].value.id
    /\ eqres["e1"] = TRUE

C20_EqTerminates ==
    \A e \in Comparers :
        epc[e] = "eq_lock_other" =>
            ~\E f \in Comparers :
                /\ lock[otherCell(e)] = f
                /\ \/ f = e
                   \/ epc[f] = "eq_lock_other" /\ lock[otherCell(f)] = e

\* C16: demo request/response ordering.  make_request(r) eventually returns,
\* and returns a response with r's value; from the moment the worker calls
\* token.set the response is in the State slot (or get_response has taken
\* it); a get_response called after make_request has returned gets that
\* response and not GetResponseError.
C16_DemoOrdering ==
    /\ <>(cpc = "returned")
    /\ [](cpc = "returned" => resp = rq)
    /\ [](nsets >= 1 => (slot = rq \/ got = rq))
    /\ []((got # NoResponse /\ gafter) => got = resp)

\* The worker is done, make_request has returned the value its await read
\* from the token, and a get_response called afterwards has returned the
\* response.
C16_Witness ==
    /\ cpc = "returned"
    /\ wpc = "done"
    /\ nspur = 0 /\ readys[1] = 1
    /\ gafter
    /\ got = rq

====
